---- MODULE Spec2Model ----
(***************************************************************************)
(* Model of scripts/render_manim.py: the claim matcher, the manifest       *)
(* merger (attach_claim_animation_links), the render orchestrator (main)   *)
(* and the text-only refresh; and of render_definition_animations of       *)
(* scripts/build_definitions.py.                                           *)
(*                                                                         *)
(* Values.  A JSON/Python string is a TLA+ string.  Python's None and an   *)
(* absent dictionary key are both the value None (every read in the code   *)
(* is a dict.get, which does not tell them apart).  A dictionary is a      *)
(* record with a fixed set of fields, absent keys holding None.  A list is *)
(* a sequence.                                                             *)
(***************************************************************************)
EXTENDS Integers, Sequences, FiniteSets, TLC

----------------------------------------------------------------------------
(* Bounds of the model *)

MaxClaims == 2

MaxEntries == 2

----------------------------------------------------------------------------
(* Strings *)

None == "<null>"

\* Python truthiness of a string-or-None value.
Truthy(v) == v # None /\ v # ""

\* str.strip() on the strings of the model: the padded strings are listed,
\* every other string of the model has no surrounding whitespace.
Strip(s) ==
    CASE s = " " -> ""
      [] s = " Part1" -> "Part1"
      [] s = " Part2" -> "Part2"
      [] s = " b" -> "b"
      [] s = " 1.2 " -> "1.2"
      [] OTHER -> s

\* str(v): None prints as the text "None".
Str(v) == IF v = None THEN "None" ELSE v

\* chr(ord("a") + idx)
Letter(idx) == <<"a", "b", "c", "d", "e">>[idx + 1]

\* Python's order on the strings that occur as claim ids (code point order:
\* punctuation < digits < upper case < lower case).
IdOrder ==
    <<"(a)", "(b)", "1.2", "None", "Part1", "Part2", "Part3", "T1",
      "a", "b", "c", "d", "demorgan", "demorgan__Part1", "demorgan__Part2",
      "demorgan__Part3", "e", "limit", "limit__Part1", "limit__Part2",
      "limit__Part3", "main", "x">>

IdRank(s) == CHOOSE i \in 1..Len(IdOrder) : IdOrder[i] = s

StrLess(a, b) == IdRank(a) < IdRank(b)

----------------------------------------------------------------------------
(* Sequence helpers *)

SeqsUpTo(S, n) == UNION {[1..k -> S] : k \in 0..n}

Range(s) == {s[i] : i \in 1..Len(s)}

\* The lists of a sequence of lists, joined in order.
RECURSIVE Flatten(_)
Flatten(lists) ==
    IF lists = << >> THEN << >> ELSE Head(lists) \o Flatten(Tail(lists))

\* First element of a sequence of values that is truthy (a or b or c ...),
\* the last one when none is.
RECURSIVE OrChain(_)
OrChain(vs) ==
    IF Len(vs) = 1 \/ Truthy(Head(vs)) THEN Head(vs) ELSE OrChain(Tail(vs))

----------------------------------------------------------------------------
(* normalize_tags *)

\* The value of a "subjects"/"subject" key: absent, a string, or a list of
\* strings.
NoSubjects == [kind |-> "none", text |-> None, items |-> << >>]

SubjectText(t) == [kind |-> "str", text |-> t, items |-> << >>]

SubjectList(l) == [kind |-> "list", text |-> None, items |-> l]

SubjectsTruthy(v) ==
    \/ v.kind = "str" /\ v.text # ""
    \/ v.kind = "list" /\ v.items # << >>

\* a or b or c ... on subjects values.
RECURSIVE OrSubjects(_)
OrSubjects(vs) ==
    IF Len(vs) = 1 \/ SubjectsTruthy(Head(vs)) THEN Head(vs)
    ELSE OrSubjects(Tail(vs))

RECURSIVE StripNonEmpty(_)
StripNonEmpty(items) ==
    IF items = << >> THEN << >>
    ELSE LET text == Strip(Str(Head(items)))
             rest == StripNonEmpty(Tail(items))
         IN  IF Head(items) = None \/ text = "" THEN rest ELSE <<text>> \o rest

_as_list(value) ==
    IF ~SubjectsTruthy(value) THEN << >>
    ELSE IF value.kind = "str"
         THEN (IF Strip(value.text) # "" THEN <<Strip(value.text)>> ELSE << >>)
         ELSE StripNonEmpty(value.items)

\* Variant of Dedupe that keeps the distinct items newest first.
RECURSIVE DedupeNewestFirst(_)
DedupeNewestFirst(items) ==
    IF items = << >> THEN << >>
    ELSE LET front == DedupeNewestFirst(SubSeq(items, 1, Len(items) - 1))
             last == items[Len(items)]
         IN  IF last \in Range(front) THEN front ELSE <<last>> \o front

\* list(dict.fromkeys(items)): first occurrences, in order.
RECURSIVE Dedupe(_)
Dedupe(items) ==
    IF items = << >> THEN << >>
    ELSE LET front == Dedupe(SubSeq(items, 1, Len(items) - 1))
             last == items[Len(items)]
         IN  IF last \in Range(front) THEN front ELSE Append(front, last)

\* The object normalize_tags reads: the keys of entry["tags"] (when that is
\* a dict) and the keys at the root.
TagSource(t_subjects, t_subject, t_chapter, t_number, t_numbering, subjects, subject, chapter, number, numbering, label) ==
    [t_subjects |-> t_subjects, t_subject |-> t_subject, t_chapter |-> t_chapter,
     t_number |-> t_number, t_numbering |-> t_numbering,
     subjects |-> subjects, subject |-> subject, chapter |-> chapter,
     number |-> number, numbering |-> numbering, label |-> label]

\* The normalized object: a key that is omitted holds << >> (subjects) or
\* None (chapter, number); the empty dict is EmptyTags.
EmptyTags == [subjects |-> << >>, chapter |-> None, number |-> None]

normalize_tags(entry) ==
    LET subjects == OrSubjects(<<entry.t_subjects, entry.t_subject,
                                 entry.subjects, entry.subject>>)
        chapter == OrChain(<<entry.t_chapter, entry.chapter>>)
        number == OrChain(<<entry.t_number, entry.t_numbering, entry.number,
                            entry.numbering, entry.label>>)
    IN  [subjects |-> Dedupe(_as_list(subjects)),
         chapter |-> IF chapter # None /\ Strip(Str(chapter)) # ""
                     THEN Strip(Str(chapter)) ELSE None,
         number |-> IF number # None /\ Strip(Str(number)) # ""
                    THEN Strip(Str(number)) ELSE None]

----------------------------------------------------------------------------
(* normalize_claims *)

\* A JSON value read where the code asks isinstance(value, list): the list,
\* or anything else (None, a string, a dict).
ListVal(items) == [is_list |-> TRUE, items |-> items]

NotAList == [is_list |-> FALSE, items |-> << >>]

\* One raw claim of a description file: every key is optional.
RawClaim(id, label, scene, animation, variant, statement, steps) ==
    [id |-> id, label |-> label, scene |-> scene, animation |-> animation,
     variant |-> variant, statement |-> statement, steps |-> steps]

\* Variant of NormalizeClaim that derives a missing id from the position
\* alone, whatever label the claim has.
NormalizeClaimIdOrLetter(entry, idx) ==
    LET first == Strip(Str(OrChain(<<entry.id, Letter(idx)>>)))
        claim_id == IF first = "" THEN Letter(idx) ELSE first
    IN  [id |-> claim_id,
         label |-> IF Truthy(entry.label) THEN entry.label
                   ELSE "(" \o claim_id \o ")",
         scene |-> OrChain(<<entry.scene, entry.animation, entry.variant>>),
         statement |-> IF Truthy(entry.statement) THEN entry.statement ELSE "",
         steps |-> IF entry.steps.is_list THEN entry.steps.items ELSE << >>]

\* The body of the loop of normalize_claims for the claim at 0-based idx.
NormalizeClaim(entry, idx) ==
    LET first == Strip(Str(OrChain(<<entry.id, entry.label, Letter(idx)>>)))
        claim_id == IF first = "" THEN Letter(idx) ELSE first
    IN  [id |-> claim_id,
         label |-> IF Truthy(entry.label) THEN entry.label
                   ELSE "(" \o claim_id \o ")",
         scene |-> OrChain(<<entry.scene, entry.animation, entry.variant>>),
         statement |-> IF Truthy(entry.statement) THEN entry.statement ELSE "",
         steps |-> IF entry.steps.is_list THEN entry.steps.items ELSE << >>]

\* payload: see Payload below.  A payload that is not a dict, or whose
\* "claims" is not a list, gives no claims.
normalize_claims(payload) ==
    IF payload.kind # "dict" THEN << >>
    ELSE [i \in 1..Len(payload.claims) |-> NormalizeClaim(payload.claims[i], i - 1)]

----------------------------------------------------------------------------
(* pick_claim_for_scene *)

\* Position (1-based) of the first claim whose position is in hits, 0 when
\* hits is empty: `for claim in claims: if <test>: return claim`.
FirstIndex(hits) ==
    IF hits # {} THEN CHOOSE i \in hits : \A j \in hits : i <= j ELSE 0

SceneRefMatches(claim, scene_name) ==
    LET scene_ref == Strip(IF Truthy(claim.scene) THEN claim.scene ELSE "")
    IN  scene_ref # "" /\ scene_ref = scene_name

ClaimIdMatches(claim, scene_name) ==
    LET cid == Strip(Str(IF Truthy(claim.id) THEN claim.id ELSE ""))
    IN  cid # "" /\ cid = scene_name

\* Variants of pick_claim_for_scene with one rule of the chain changed.
pick_id_before_scene(claims, scene_name, scene_index) ==
    LET by_scene == FirstIndex({i \in 1..Len(claims) : SceneRefMatches(claims[i], scene_name)})
        by_id == FirstIndex({i \in 1..Len(claims) : ClaimIdMatches(claims[i], scene_name)})
    IN  IF by_id # 0 THEN by_id
        ELSE IF by_scene # 0 THEN by_scene
        ELSE IF 0 <= scene_index /\ scene_index < Len(claims) THEN scene_index + 1
        ELSE IF Len(claims) > 0 THEN 1
        ELSE 0

pick_position_before_id(claims, scene_name, scene_index) ==
    LET by_scene == FirstIndex({i \in 1..Len(claims) : SceneRefMatches(claims[i], scene_name)})
        by_id == FirstIndex({i \in 1..Len(claims) : ClaimIdMatches(claims[i], scene_name)})
    IN  IF by_scene # 0 THEN by_scene
        ELSE IF 0 <= scene_index /\ scene_index < Len(claims) THEN scene_index + 1
        ELSE IF by_id # 0 THEN by_id
        ELSE IF Len(claims) > 0 THEN 1
        ELSE 0

pick_fallback_last(claims, scene_name, scene_index) ==
    LET by_scene == FirstIndex({i \in 1..Len(claims) : SceneRefMatches(claims[i], scene_name)})
        by_id == FirstIndex({i \in 1..Len(claims) : ClaimIdMatches(claims[i], scene_name)})
    IN  IF by_scene # 0 THEN by_scene
        ELSE IF by_id # 0 THEN by_id
        ELSE IF 0 <= scene_index /\ scene_index < Len(claims) THEN scene_index + 1
        ELSE Len(claims)

\* The result is the 1-based position in claims of the claim the code
\* returns, 0 when it returns None.  scene_index is 0-based, as in the code.
pick_claim_for_scene(claims, scene_name, scene_index) ==
    LET by_scene == FirstIndex({i \in 1..Len(claims) : SceneRefMatches(claims[i], scene_name)})
        by_id == FirstIndex({i \in 1..Len(claims) : ClaimIdMatches(claims[i], scene_name)})
    IN  IF by_scene # 0 THEN by_scene
        ELSE IF by_id # 0 THEN by_id
        ELSE IF 0 <= scene_index /\ scene_index < Len(claims) THEN scene_index + 1
        ELSE IF Len(claims) > 0 THEN 1
        ELSE 0

----------------------------------------------------------------------------
(* Description files and load_proof_payload *)

\* A parsed description file.  kind "none" is Python's None (no file, or a
\* file that does not parse); kind "list" is a bare array, held in steps;
\* kind "dict" is an object, an absent key holding None (NotAList for
\* "steps", << >> for "claims", has_scenes = FALSE for "scenes").
\* tags_number is payload["tags"]["number"] of a "tags" object.
Payload(kind, id, tags_number, title, description, statement, steps, claims, has_scenes, scenes) ==
    [kind |-> kind, id |-> id, tags_number |-> tags_number, title |-> title,
     description |-> description, statement |-> statement, steps |-> steps,
     claims |-> claims, has_scenes |-> has_scenes, scenes |-> scenes]

NonePayload ==
    Payload("none", None, None, None, None, None, NotAList, << >>, FALSE, << >>)

ListPayload(steps) ==
    Payload("list", None, None, None, None, None, ListVal(steps), << >>, FALSE, << >>)

\* bool(payload): None, [] and {} are falsy.
PayloadTruthy(payload) ==
    \/ payload.kind = "list" /\ payload.steps.items # << >>
    \/ /\ payload.kind = "dict"
       /\ payload # Payload("dict", None, None, None, None, None, NotAList,
                            << >>, FALSE, << >>)

\* Variant of load_proof_payload that returns the candidate path of a file
\* it could not parse.
load_proof_payload_keeps_candidate(file) ==
    IF file.desc.exists
    THEN [payload |-> file.desc.value,
          path |-> "data/proofs/" \o file.stem \o ".proof.json"]
    ELSE [payload |-> NonePayload, path |-> None]

\* The description file beside a source file: desc.exists, desc.parses and
\* the value json.loads gives.  Both candidates of the code name the same
\* path (<stem>.proof.json beside the source).
load_proof_payload(file) ==
    IF file.desc.exists /\ file.desc.parses
    THEN [payload |-> file.desc.value,
          path |-> "data/proofs/" \o file.stem \o ".proof.json"]
    ELSE [payload |-> NonePayload, path |-> None]

----------------------------------------------------------------------------
(* extract_proof_from_payload *)

\* A proof fragment: the dict the function returns (present), or None.
Fragment(present, title, description, statement, steps) ==
    [present |-> present, title |-> title, description |-> description,
     statement |-> statement, steps |-> steps]

NoFragment == Fragment(FALSE, None, None, None, NotAList)

\* payload["scenes"] is a sequence of [name, value] pairs with distinct
\* names; a value is a Payload of kind "list" (a bare array of steps) or
\* "dict" (a fragment object).
SceneValue(payload, scene_name) ==
    IF \E i \in 1..Len(payload.scenes) : payload.scenes[i].name = scene_name
    THEN (CHOOSE e \in Range(payload.scenes) : e.name = scene_name).value
    ELSE NonePayload

extract_proof_from_payload(payload, scene_name) ==
    LET scene_payload == SceneValue(payload, scene_name)
    IN  IF payload.kind = "list"
        THEN Fragment(TRUE, None, None, None, payload.steps)
        ELSE IF payload.kind # "dict" THEN NoFragment
        ELSE IF payload.has_scenes /\ scene_payload.kind = "list"
        THEN Fragment(TRUE, None, None, None, scene_payload.steps)
        ELSE IF payload.has_scenes /\ scene_payload.kind = "dict"
        THEN Fragment(TRUE, scene_payload.title, scene_payload.description,
                      scene_payload.statement, scene_payload.steps)
        ELSE IF payload.steps.is_list
        THEN Fragment(TRUE, payload.title, payload.description,
                      payload.statement, payload.steps)
        ELSE NoFragment

\* bool(proof_for_scene): None and {} are falsy.
FragmentTruthy(frag) ==
    /\ frag.present
    /\ frag # Fragment(TRUE, None, None, None, NotAList)

----------------------------------------------------------------------------
(* The per-scene part of main and of refresh_text_only *)

\* theorem_id of main (and of refresh_text_only): the payload's id, else
\* str(payload["tags"]["number"]), else the stem.
TheoremId(payload, stem) ==
    LET first == IF payload.kind = "dict" /\ Truthy(payload.id)
                 THEN Strip(Str(payload.id))
                 ELSE IF payload.kind = "dict"
                      THEN Strip(Str(payload.tags_number))
                      ELSE ""
    IN  IF first # "" THEN first ELSE stem

\* proof["claims"]: the claims without their steps, or the synthetic one.
MainClaim == [id |-> "main", label |-> "main", scene |-> None,
              statement |-> None, animationId |-> None]

ProofClaims(claims) ==
    IF claims # << >>
    THEN [i \in 1..Len(claims) |->
            [id |-> claims[i].id, label |-> claims[i].label,
             scene |-> claims[i].scene, statement |-> claims[i].statement,
             animationId |-> None]]
    ELSE <<MainClaim>>

\* proof["activeClaimId"]: selected is the position pick_claim_for_scene
\* returned.
ActiveClaimId(claims, selected) ==
    IF selected = 0 THEN "main" ELSE claims[selected].id

\* (payload or {}).get(key): a non-empty list has no get and raises.
ProofRaises(payload) == payload.kind = "list" /\ PayloadTruthy(payload)

\* Variant of BuildProof that takes the steps of the scene's fragment when
\* it has any, and the selected claim's steps otherwise.
BuildProofFragmentFirst(payload, claims, theorem_id, scene_name, scene_index) ==
    LET proof_for_scene ==
            IF PayloadTruthy(payload)
            THEN extract_proof_from_payload(payload, scene_name)
            ELSE NoFragment
        frag == IF FragmentTruthy(proof_for_scene) THEN proof_for_scene
                ELSE NoFragment
        selected == pick_claim_for_scene(claims, scene_name, scene_index)
        steps == IF frag.steps.is_list THEN frag.steps.items
                 ELSE IF selected # 0 THEN claims[selected].steps
                 ELSE << >>
    IN  [title |-> OrChain(<<frag.title, payload.title>>),
         description |-> OrChain(<<frag.description, payload.description>>),
         statement |-> OrChain(<<frag.statement, payload.statement, "">>),
         steps |-> steps,
         claims |-> ProofClaims(claims),
         activeClaimId |-> ActiveClaimId(claims, selected),
         theoremId |-> theorem_id]

\* The proof dict of one scene.
BuildProof(payload, claims, theorem_id, scene_name, scene_index) ==
    LET proof_for_scene ==
            IF PayloadTruthy(payload)
            THEN extract_proof_from_payload(payload, scene_name)
            ELSE NoFragment
        frag == IF FragmentTruthy(proof_for_scene) THEN proof_for_scene
                ELSE NoFragment
        selected == pick_claim_for_scene(claims, scene_name, scene_index)
        steps == IF selected # 0 THEN claims[selected].steps
                 ELSE IF frag.steps.is_list THEN frag.steps.items
                 ELSE << >>
    IN  [title |-> OrChain(<<frag.title, payload.title>>),
         description |-> OrChain(<<frag.description, payload.description>>),
         statement |-> OrChain(<<frag.statement, payload.statement, "">>),
         steps |-> steps,
         claims |-> ProofClaims(claims),
         activeClaimId |-> ActiveClaimId(claims, selected),
         theoremId |-> theorem_id]

\* Variant of ProofTagSource in which the theorem id of the proof is read
\* as the entry's number.
ProofTagSourceWithNumber(proof) ==
    TagSource(NoSubjects, NoSubjects, None, None, None,
              NoSubjects, NoSubjects, None, proof.theoremId, None, None)

\* normalize_tags(proof): the proof dict has none of the keys it reads.
ProofTagSource(proof) ==
    TagSource(NoSubjects, NoSubjects, None, None, None,
              NoSubjects, NoSubjects, None, None, None, None)

EntryId(stem, scene_name) == stem \o "__" \o scene_name

\* The manifest item main appends for a rendered scene.
BuildItem(stem, scene_name, quality, sections, proof, theorem_id, proof_source) ==
    [id |-> EntryId(stem, scene_name),
     scene |-> scene_name,
     source |-> "data/proofs/" \o stem \o ".py",
     file |-> "proofs/" \o EntryId(stem, scene_name) \o ".mp4",
     url |-> "/proofs/" \o EntryId(stem, scene_name) \o ".mp4",
     quality |-> quality,
     sections |-> sections,
     proof |-> proof,
     theoremId |-> theorem_id,
     proofSource |-> proof_source,
     tags |-> normalize_tags(ProofTagSource(proof))]

----------------------------------------------------------------------------
(* attach_claim_animation_links *)

\* The key an item is grouped under.
GroupKey(item) == OrChain(<<item.theoremId, item.proof.theoremId, item.id>>)

GroupItems(items, key) == SelectSeq(items, LAMBDA item : GroupKey(item) = key)

\* claim_map is a dict keyed by claim id: here the sequence of its values
\* in insertion order, each value holding its own key in id.
HasClaim(claim_map, cid) == \E i \in 1..Len(claim_map) : claim_map[i].id = cid

ClaimPos(claim_map, cid) == CHOOSE i \in 1..Len(claim_map) : claim_map[i].id = cid

\* claim_map.setdefault(cid, {"id": cid})
SetDefault(claim_map, cid) ==
    IF HasClaim(claim_map, cid) THEN claim_map
    ELSE Append(claim_map, [id |-> cid, label |-> None, scene |-> None,
                            statement |-> None, animationId |-> None])

\* MergeClaim that also copies the animationId a claim comes in with.
MergeClaimKeepingAnimation(claim_map, claim) ==
    LET cid == Str(IF Truthy(claim.id) THEN claim.id ELSE "main")
        with == SetDefault(claim_map, cid)
        pos == ClaimPos(with, cid)
        stored == with[pos]
        Take(old, new) == IF Truthy(new) /\ ~Truthy(old) THEN new ELSE old
    IN  [with EXCEPT ![pos] =
            [stored EXCEPT !.label = Take(stored.label, claim.label),
                           !.statement = Take(stored.statement, claim.statement),
                           !.scene = Take(stored.scene, claim.scene),
                           !.animationId = Take(stored.animationId, claim.animationId)]]

\* MergeClaim in which a later non-empty value replaces the stored one.
MergeClaimLastWins(claim_map, claim) ==
    LET cid == Str(IF Truthy(claim.id) THEN claim.id ELSE "main")
        with == SetDefault(claim_map, cid)
        pos == ClaimPos(with, cid)
        stored == with[pos]
        Take(old, new) == IF Truthy(new) THEN new ELSE old
    IN  [with EXCEPT ![pos] =
            [stored EXCEPT !.label = Take(stored.label, claim.label),
                           !.statement = Take(stored.statement, claim.statement),
                           !.scene = Take(stored.scene, claim.scene)]]

\* One turn of "for claim in claims": a field of the stored claim is set
\* from claim only while it is empty.
MergeClaim(claim_map, claim) ==
    LET cid == Str(IF Truthy(claim.id) THEN claim.id ELSE "main")
        with == SetDefault(claim_map, cid)
        pos == ClaimPos(with, cid)
        stored == with[pos]
        Take(old, new) == IF Truthy(new) /\ ~Truthy(old) THEN new ELSE old
    IN  [with EXCEPT ![pos] =
            [stored EXCEPT !.label = Take(stored.label, claim.label),
                           !.statement = Take(stored.statement, claim.statement),
                           !.scene = Take(stored.scene, claim.scene)]]

RECURSIVE MergeClaims(_, _)
MergeClaims(claim_map, claims) ==
    IF claims = << >> THEN claim_map
    ELSE MergeClaims(MergeClaim(claim_map, Head(claims)), Tail(claims))

\* The claims an item contributes: its proof.claims, or the one claim made
\* from its activeClaimId.
ContributedClaims(item) ==
    IF item.proof.claims # << >> THEN item.proof.claims
    ELSE LET active_id == IF Truthy(item.proof.activeClaimId)
                          THEN item.proof.activeClaimId ELSE "main"
         IN  <<[id |-> active_id, label |-> active_id, scene |-> None,
                statement |-> None, animationId |-> None]>>

\* First loop over the group: collect claim metadata across variants.
RECURSIVE CollectClaims(_, _)
CollectClaims(claim_map, group_items) ==
    IF group_items = << >> THEN claim_map
    ELSE CollectClaims(MergeClaims(claim_map, ContributedClaims(Head(group_items))),
                       Tail(group_items))

\* AttachOne that keeps the first animationId a claim got.
AttachOneFirstWins(claim_map, item) ==
    LET active_id == Str(IF Truthy(item.proof.activeClaimId)
                         THEN item.proof.activeClaimId ELSE "main")
        with == SetDefault(claim_map, active_id)
        pos == ClaimPos(with, active_id)
    IN  [with EXCEPT ![pos] =
            [@ EXCEPT !.label = IF @ = None THEN "(" \o active_id \o ")" ELSE @,
                      !.animationId = IF @ = None THEN item.id ELSE @]]

\* AttachOne that writes the item's scene name instead of its id.
AttachOneSceneName(claim_map, item) ==
    LET active_id == Str(IF Truthy(item.proof.activeClaimId)
                         THEN item.proof.activeClaimId ELSE "main")
        with == SetDefault(claim_map, active_id)
        pos == ClaimPos(with, active_id)
    IN  [with EXCEPT ![pos] =
            [@ EXCEPT !.label = IF @ = None THEN "(" \o active_id \o ")" ELSE @,
                      !.animationId = item.scene]]

\* AttachOne that rewrites the label of the claim it binds, wrapping the
\* label it finds in parentheses.
AttachOneWrapsLabel(claim_map, item) ==
    LET active_id == Str(IF Truthy(item.proof.activeClaimId)
                         THEN item.proof.activeClaimId ELSE "main")
        with == SetDefault(claim_map, active_id)
        pos == ClaimPos(with, active_id)
    IN  [with EXCEPT ![pos] =
            [@ EXCEPT !.label = "(" \o (IF @ = None THEN active_id ELSE @) \o ")",
                      !.animationId = item.id]]

\* One turn of the second loop: the claim the item renders gets the item's
\* id as animationId.
AttachOne(claim_map, item) ==
    LET active_id == Str(IF Truthy(item.proof.activeClaimId)
                         THEN item.proof.activeClaimId ELSE "main")
        with == SetDefault(claim_map, active_id)
        pos == ClaimPos(with, active_id)
    IN  [with EXCEPT ![pos] =
            [@ EXCEPT !.label = IF @ = None THEN "(" \o active_id \o ")" ELSE @,
                      !.animationId = item.id]]

RECURSIVE AttachAll(_, _)
AttachAll(claim_map, group_items) ==
    IF group_items = << >> THEN claim_map
    ELSE AttachAll(AttachOne(claim_map, Head(group_items)), Tail(group_items))

\* SortById that leaves the claims in the insertion order of claim_map.
KeepInsertionOrder(claims) == claims

\* sorted(values, key=id): insertion into a sorted sequence, an element
\* going after the elements that are not greater (sorted is stable).
RECURSIVE SortById(_)
SortById(claims) ==
    IF claims = << >> THEN << >>
    ELSE LET front == SortById(SubSeq(claims, 1, Len(claims) - 1))
             last == claims[Len(claims)]
             n == Cardinality({i \in 1..Len(front) : ~StrLess(last.id, front[i].id)})
         IN  SubSeq(front, 1, n) \o <<last>> \o SubSeq(front, n + 1, Len(front))

\* claims_list of one group.
ClaimsList(group_items) ==
    SortById(AttachAll(CollectClaims(<< >>, group_items), group_items))

\* attach_claim_animation_links that gives every item the claims list built
\* from the group's items up to and including it.
attach_links_item_by_item(items) ==
    [i \in 1..Len(items) |->
        [items[i] EXCEPT !.proof.claims =
            ClaimsList(GroupItems(SubSeq(items, 1, i), GroupKey(items[i])))]]

attach_claim_animation_links(items) ==
    [i \in 1..Len(items) |->
        [items[i] EXCEPT !.proof.claims =
            ClaimsList(GroupItems(items, GroupKey(items[i])))]]

----------------------------------------------------------------------------
(* discover_scenes and render_scene: the renderer *)

\* inspect.getmembers lists the classes of the module sorted by name.
RECURSIVE SortNames(_)
SortNames(names) ==
    IF names = << >> THEN << >>
    ELSE LET front == SortNames(SubSeq(names, 1, Len(names) - 1))
             last == names[Len(names)]
             n == Cardinality({i \in 1..Len(front) : ~StrLess(last, front[i])})
         IN  SubSeq(front, 1, n) \o <<last>> \o SubSeq(front, n + 1, Len(front))

\* file.declared: the Scene subclasses of the file in declaration order.
discover_scenes(file) == SortNames(file.declared)

\* What one call of render_scene can do: raise, or return the clip and its
\* sections.
RenderFailed == [ok |-> FALSE, sections |-> << >>]

RenderOutcomes == {RenderFailed, [ok |-> TRUE, sections |-> << >>]}

----------------------------------------------------------------------------
(* Inputs of a run *)

SceneNames == {"Part1", "Part2"}

Stems == <<"demorgan", "limit">>

\* The scenes a source file declares, in declaration order: distinct names.
SceneLists ==
    {s \in SeqsUpTo(SceneNames, Cardinality(SceneNames)) :
        \A i, j \in 1..Len(s) : i # j => s[i] # s[j]}

RunRawClaims ==
    {RawClaim("a", None, "Part1", None, None, "law1", NotAList),
     RawClaim("b", None, "Part2", None, None, "law2", NotAList),
     RawClaim(None, None, None, None, None, None, NotAList)}

\* <<id, tags.number>> of a description file.
RunIdOptions == {<<None, None>>, <<"limit", None>>, <<None, "1.2">>}

DictPayloads(id_options, raw_claims, n) ==
    {Payload("dict", o[1], o[2], None, None, None, NotAList, claims, FALSE, << >>) :
        o \in id_options, claims \in SeqsUpTo(raw_claims, n)}

AbsentDesc == [exists |-> FALSE, parses |-> FALSE, value |-> NonePayload]

MalformedDesc == [exists |-> TRUE, parses |-> FALSE, value |-> NonePayload]

ParsedDesc(payload) == [exists |-> TRUE, parses |-> TRUE, value |-> payload]

\* The description files of the first source file: every shape, and every
\* claim list of at most MaxClaims of the raw claims.
DescFiles ==
    {AbsentDesc, MalformedDesc, ParsedDesc(ListPayload(<<"step">>))} \cup
    {ParsedDesc(p) : p \in DictPayloads(RunIdOptions, RunRawClaims, MaxClaims)}

\* The description files of the second source file: enough to make it share
\* a theorem group with the first (by its stem, by a number, by "None").
PeerDescFiles ==
    {AbsentDesc} \cup
    {ParsedDesc(p) :
        p \in DictPayloads({<<None, None>>, <<None, "1.2">>},
                           {RawClaim(None, None, None, None, None, None, NotAList)},
                           1)}

\* The second source file declares at most one scene.
PeerSceneLists == {s \in SceneLists : Len(s) <= 1}

SourceFiles(stem, scene_lists, descs) ==
    {[stem |-> stem, declared |-> d, desc |-> desc] :
        d \in scene_lists, desc \in descs}

\* sorted(src_dir.glob("*.py")): any of the stems, in name order.
FileLists ==
    {<< >>} \cup
    {<<f>> : f \in SourceFiles(Stems[1], SceneLists, DescFiles)} \cup
    {<<g>> : g \in SourceFiles(Stems[2], PeerSceneLists, PeerDescFiles)} \cup
    {<<f, g>> : f \in SourceFiles(Stems[1], SceneLists, DescFiles),
                g \in SourceFiles(Stems[2], PeerSceneLists, PeerDescFiles)}

----------------------------------------------------------------------------
(* State *)

VARIABLES
    src_exists,      \* src_dir.exists()
    py_files,        \* sorted(src_dir.glob("*.py"))
    quality,         \* args.quality
    pc,              \* "idle" before the first invocation; "load", "render"
                     \* inside main's loops; "done" once an invocation returned
    file_i,          \* position in py_files of the file being processed
    scene_index,     \* 0-based position in scenes of the next scene
    cur,             \* proof_payload, proof_source_path, claims, theorem_id, scenes
    manifest_items,  \* the list main accumulates
    had_errors,
    render_log,      \* the calls of render_scene so far: stem, scene, ok
    temp_media,      \* whether out_dir/.manim-tmp exists
    manifest_file,   \* the manifest on disk
    exit_code,       \* << >> while running, <<code>> once the invocation returned
    exit_path,       \* the return statement the last invocation left by
    refreshes,       \* the number of --text-only invocations so far
    disk,            \* the source files (with their description files) now
                     \* in src_dir: py_files until a file is removed or a
                     \* description edited after the render
    read_manifest,   \* the manifest the last --text-only invocation found
    call,            \* the arguments of a function called on its own
    ret              \* what that call returned

vars == <<src_exists, py_files, quality, pc, file_i, scene_index, cur,
          manifest_items, had_errors, render_log, temp_media, manifest_file,
          exit_code, exit_path, refreshes, disk, read_manifest, call, ret>>

run_vars == <<src_exists, py_files, quality, file_i, scene_index, cur,
              manifest_items, had_errors, render_log, temp_media,
              manifest_file, exit_code, exit_path, refreshes, disk,
              read_manifest>>

NoCall == [fn |-> "none"]

NoCur == [payload |-> NonePayload, proof_source |-> None, claims |-> << >>,
          theorem_id |-> None, scenes |-> << >>]

\* The manifest on disk: whether the file exists, whether json.loads reads
\* it, whether its "items" is a list, and the items.
ManifestFile(exists, parses, items_is_list, items) ==
    [exists |-> exists, parses |-> parses, items_is_list |-> items_is_list,
     items |-> items]

NoManifest == ManifestFile(FALSE, FALSE, FALSE, << >>)

\* What a --text-only invocation can find where no run wrote a manifest.
InitialManifests ==
    {NoManifest,
     ManifestFile(TRUE, FALSE, FALSE, << >>),
     ManifestFile(TRUE, TRUE, FALSE, << >>),
     ManifestFile(TRUE, TRUE, TRUE, << >>)}

Init ==
    /\ src_exists \in BOOLEAN
    /\ py_files \in (IF src_exists THEN FileLists ELSE {<< >>})
    /\ manifest_file \in (IF py_files = << >> THEN InitialManifests ELSE {NoManifest})
    /\ quality = "m"
    /\ pc = "idle"
    /\ file_i = 1
    /\ scene_index = 0
    /\ cur = NoCur
    /\ manifest_items = << >>
    /\ had_errors = FALSE
    /\ render_log = << >>
    /\ temp_media = FALSE
    /\ exit_code = << >>
    /\ exit_path = "none"
    /\ refreshes = 0
    /\ disk = py_files
    /\ read_manifest = NoManifest
    /\ call = NoCall
    /\ ret = << >>

\* write_manifest(manifest_path, items, out_dir)
write_manifest(items) == ManifestFile(TRUE, TRUE, TRUE, items)

----------------------------------------------------------------------------
(* main without --text-only *)

\* Lines 561-570: nothing to render, an empty manifest is written.
NothingToRender ==
    /\ pc = "idle"
    /\ ~src_exists \/ py_files = << >>
    /\ manifest_file' = write_manifest(<< >>)
    /\ exit_code' = <<0>>
    /\ exit_path' = "nothing_to_render"
    /\ pc' = "done"
    /\ UNCHANGED <<src_exists, py_files, quality, file_i, scene_index, cur,
                   manifest_items, had_errors, render_log, temp_media,
                   refreshes, disk,
                   read_manifest, call, ret>>

\* Lines 572-578: manim is not installed.
ManimMissing ==
    /\ pc = "idle"
    /\ src_exists /\ py_files # << >>
    /\ exit_code' = <<1>>
    /\ exit_path' = "manim_missing"
    /\ pc' = "done"
    /\ UNCHANGED <<src_exists, py_files, quality, file_i, scene_index, cur,
                   manifest_items, had_errors, render_log, temp_media,
                   manifest_file, refreshes, disk,
                   read_manifest, call, ret>>

\* Lines 580-584: manim is installed, the loop over the files begins.
BeginRender ==
    /\ pc = "idle"
    /\ src_exists /\ py_files # << >>
    /\ manifest_items' = << >>
    /\ had_errors' = FALSE
    /\ pc' = "load"
    /\ UNCHANGED <<src_exists, py_files, quality, file_i, scene_index, cur,
                   render_log, temp_media, manifest_file, exit_code, exit_path,
                   refreshes, disk,
                   read_manifest, call, ret>>

\* Lines 586-602: the head of the loop body for py_files[file_i]; a file
\* without scenes is skipped.
LoadFile ==
    /\ pc = "load"
    /\ file_i <= Len(py_files)
    /\ LET file == py_files[file_i]
           loaded == load_proof_payload(file)
           scenes == discover_scenes(file)
       IN  /\ cur' = [payload |-> loaded.payload,
                      proof_source |-> loaded.path,
                      claims |-> normalize_claims(loaded.payload),
                      theorem_id |-> TheoremId(loaded.payload, file.stem),
                      scenes |-> scenes]
           /\ scene_index' = 0
           /\ IF scenes = << >>
              THEN file_i' = file_i + 1 /\ pc' = "load"
              ELSE file_i' = file_i /\ pc' = "render"
    /\ UNCHANGED <<src_exists, py_files, quality, manifest_items, had_errors,
                   render_log, temp_media, manifest_file, exit_code, exit_path,
                   refreshes, disk,
                   read_manifest, call, ret>>

\* The position after one turn of the scene loop.
NextScene ==
    IF scene_index + 1 < Len(cur.scenes)
    THEN /\ scene_index' = scene_index + 1
         /\ file_i' = file_i
         /\ pc' = "render"
    ELSE /\ scene_index' = 0
         /\ file_i' = file_i + 1
         /\ pc' = "load"

\* Lines 604-655: one turn of the scene loop.  render_scene recreates the
\* temporary media directory, then returns or raises; an exception anywhere
\* in the try block sets had_errors and appends nothing.
RenderScene ==
    /\ pc = "render"
    /\ \E result \in RenderOutcomes :
        LET stem == py_files[file_i].stem
            scene_name == cur.scenes[scene_index + 1]
            proof == BuildProof(cur.payload, cur.claims, cur.theorem_id,
                                scene_name, scene_index)
            item == BuildItem(stem, scene_name, quality, result.sections, proof,
                              cur.theorem_id, cur.proof_source)
        IN  /\ render_log' = Append(render_log,
                                    [stem |-> stem, scene |-> scene_name,
                                     ok |-> result.ok])
            /\ temp_media' = TRUE
            /\ IF result.ok /\ ~ProofRaises(cur.payload)
               THEN /\ manifest_items' = Append(manifest_items, item)
                    /\ had_errors' = had_errors
               ELSE /\ manifest_items' = manifest_items
                    /\ had_errors' = TRUE
    /\ NextScene
    /\ UNCHANGED <<src_exists, py_files, quality, cur, manifest_file, exit_code,
                   exit_path, refreshes, disk,
                   read_manifest, call, ret>>

\* Lines 657-669: after the loop.
Finish ==
    /\ pc = "load"
    /\ file_i > Len(py_files)
    /\ manifest_items' = attach_claim_animation_links(manifest_items)
    /\ manifest_file' = write_manifest(manifest_items')
    /\ temp_media' = (temp_media /\ had_errors)
    /\ exit_code' = IF had_errors THEN <<1>> ELSE <<0>>
    /\ exit_path' = "rendered"
    /\ pc' = "done"
    /\ UNCHANGED <<src_exists, py_files, quality, file_i, scene_index, cur,
                   had_errors, render_log, refreshes, disk,
                   read_manifest, call, ret>>

----------------------------------------------------------------------------
(* refresh_text_only: main with --text-only *)

MaxRefreshes == 1

SourcePath(stem) == "data/proofs/" \o stem \o ".py"

\* (PROJECT_ROOT / source_rel).exists()
SourceExists(source_rel) ==
    \E i \in 1..Len(disk) : SourcePath(disk[i].stem) = source_rel

SourceFile(source_rel) ==
    CHOOSE f \in Range(disk) : SourcePath(f.stem) = source_rel

\* The keys of grouped, in insertion order: the sources of the items in
\* order of first occurrence.
RECURSIVE SourcesInOrder(_)
SourcesInOrder(items) ==
    IF items = << >> THEN << >>
    ELSE LET front == SourcesInOrder(SubSeq(items, 1, Len(items) - 1))
             src == items[Len(items)].source
         IN  IF src \in Range(front) THEN front ELSE Append(front, src)

\* A group is passed through when it has no source or its source is gone.
PassedThrough(source_rel) == ~Truthy(source_rel) \/ ~SourceExists(source_rel)

\* Variant of RefreshItem that builds the item anew, as a render at the
\* lowest quality would, instead of copying the one read.
RefreshItemBuiltAnew(item, scene_index_, loaded, stem) ==
    LET claims == normalize_claims(loaded.payload)
        theorem_id == TheoremId(loaded.payload, stem)
        proof == BuildProof(loaded.payload, claims, theorem_id, item.scene,
                            scene_index_)
    IN  BuildItem(stem, item.scene, "l", << >>, proof, theorem_id, loaded.path)

\* Variant of RefreshItem that does not reload the claims of the
\* description file: the proof is built as for a file without claims.
RefreshItemWithoutClaims(item, scene_index_, loaded, stem) ==
    LET theorem_id == TheoremId(loaded.payload, stem)
        proof == BuildProof(loaded.payload, << >>, theorem_id, item.scene,
                            scene_index_)
        tags == normalize_tags(ProofTagSource(proof))
    IN  [item EXCEPT !.proof = proof,
                     !.theoremId = theorem_id,
                     !.proofSource = IF loaded.path # None THEN loaded.path ELSE @,
                     !.tags = IF tags # EmptyTags THEN tags ELSE @]

\* Lines 428-466 for the item at position scene_index of its group.
RefreshItem(item, scene_index_, loaded, stem) ==
    LET claims == normalize_claims(loaded.payload)
        theorem_id == TheoremId(loaded.payload, stem)
        proof == BuildProof(loaded.payload, claims, theorem_id, item.scene,
                            scene_index_)
        tags == normalize_tags(ProofTagSource(proof))
    IN  [item EXCEPT !.proof = proof,
                     !.theoremId = theorem_id,
                     !.proofSource = IF loaded.path # None THEN loaded.path ELSE @,
                     !.tags = IF tags # EmptyTags THEN tags ELSE @]

\* Lines 406-466 for one group.
RefreshGroup(source_rel, group_items) ==
    IF PassedThrough(source_rel) THEN group_items
    ELSE LET file == SourceFile(source_rel)
             loaded == load_proof_payload(file)
         IN  [k \in 1..Len(group_items) |->
                RefreshItem(group_items[k], k - 1, loaded, file.stem)]

RECURSIVE RefreshGroups(_, _)
RefreshGroups(sources, items) ==
    IF sources = << >> THEN << >>
    ELSE RefreshGroup(Head(sources),
                      SelectSeq(items, LAMBDA item : item.source = Head(sources)))
         \o RefreshGroups(Tail(sources), items)

\* The list updated of refresh_text_only, before the links are attached.
RefreshedItems(items) == RefreshGroups(SourcesInOrder(items), items)

\* Building a proof raises (and nothing catches it) for a group whose
\* description file is a non-empty bare array.
RefreshRaises(items) ==
    \E i \in 1..Len(items) :
        /\ ~PassedThrough(items[i].source)
        /\ ProofRaises(load_proof_payload(SourceFile(items[i].source)).payload)

\* What an invocation with --text-only returns and leaves on disk: the exit
\* code, the return statement it left by, and the manifest file.  An
\* exception nothing catches ends the process with exit code 1 before the
\* manifest is written.
RefreshResult(code, path, file) ==
    [exit_code |-> code, exit_path |-> path, manifest_file |-> file]

\* Variant of refresh_text_only that rewrites a manifest it cannot use.
refresh_repairs_manifest(manifest) ==
    IF ~manifest.exists
    THEN RefreshResult(0, "refresh_no_manifest", manifest)
    ELSE IF ~manifest.parses
    THEN RefreshResult(1, "refresh_unreadable", write_manifest(<< >>))
    ELSE IF ~manifest.items_is_list
    THEN RefreshResult(1, "refresh_items_not_list", write_manifest(<< >>))
    ELSE IF RefreshRaises(manifest.items)
    THEN RefreshResult(1, "refresh_exception", manifest)
    ELSE RefreshResult(0, "refreshed",
                       write_manifest(attach_claim_animation_links(
                                         RefreshedItems(manifest.items))))

refresh_text_only(manifest) ==
    IF ~manifest.exists
    THEN RefreshResult(0, "refresh_no_manifest", manifest)
    ELSE IF ~manifest.parses
    THEN RefreshResult(1, "refresh_unreadable", manifest)
    ELSE IF ~manifest.items_is_list
    THEN RefreshResult(1, "refresh_items_not_list", manifest)
    ELSE IF RefreshRaises(manifest.items)
    THEN RefreshResult(1, "refresh_exception", manifest)
    ELSE RefreshResult(0, "refreshed",
                       write_manifest(attach_claim_animation_links(
                                         RefreshedItems(manifest.items))))

\* One invocation with --text-only, from a state in which nothing runs.
RefreshTextOnly ==
    /\ pc \in {"idle", "done"}
    /\ refreshes < MaxRefreshes
    /\ refreshes' = refreshes + 1
    /\ pc' = "done"
    /\ read_manifest' = manifest_file
    /\ LET result == refresh_text_only(manifest_file)
       IN  /\ exit_code' = <<result.exit_code>>
           /\ exit_path' = result.exit_path
           /\ manifest_file' = result.manifest_file
    /\ UNCHANGED <<src_exists, py_files, quality, file_i, scene_index, cur,
                   manifest_items, had_errors, render_log, temp_media, disk,
                   call, ret>>

----------------------------------------------------------------------------
(* The source folder between a render and a refresh *)

\* The description an author can put in place of the one rendered from.
EditedDescs == {ParsedDesc(ListPayload(<<"step">>))}

\* The last invocation was a render and a refresh may still follow.
BetweenRenderAndRefresh ==
    pc = "done" /\ exit_path = "rendered" /\ refreshes < MaxRefreshes

\* The files a refresh would read: those the manifest names as a source.
NamedInManifest(file) ==
    \E k \in 1..Len(manifest_file.items) :
        manifest_file.items[k].source = SourcePath(file.stem)

\* A source file the manifest names is removed from the folder.
RemoveSource ==
    /\ BetweenRenderAndRefresh
    /\ \E i \in 1..Len(disk) :
          /\ NamedInManifest(disk[i])
          /\ disk' = SubSeq(disk, 1, i - 1) \o SubSeq(disk, i + 1, Len(disk))
    /\ UNCHANGED <<src_exists, py_files, quality, pc, file_i, scene_index, cur,
                   manifest_items, had_errors, render_log, temp_media,
                   manifest_file, exit_code, exit_path, refreshes,
                   read_manifest, call, ret>>

\* The description file of a source file the manifest names is replaced.
EditDescription ==
    /\ BetweenRenderAndRefresh
    /\ \E i \in 1..Len(disk) : \E desc \in EditedDescs :
          /\ NamedInManifest(disk[i])
          /\ desc # disk[i].desc
          /\ disk' = [disk EXCEPT ![i].desc = desc]
    /\ UNCHANGED <<src_exists, py_files, quality, pc, file_i, scene_index, cur,
                   manifest_items, had_errors, render_log, temp_media,
                   manifest_file, exit_code, exit_path, refreshes,
                   read_manifest, call, ret>>

Next ==
    \/ NothingToRender
    \/ ManimMissing
    \/ BeginRender
    \/ LoadFile
    \/ RenderScene
    \/ Finish
    \/ RefreshTextOnly
    \/ RemoveSource
    \/ EditDescription

Spec == Init /\ [][Next]_vars

----------------------------------------------------------------------------
(* pick_claim_for_scene called on its own: every claim list normalize_claims *)
(* can return for the raw claims below, every scene name, every position.    *)

PickRawClaims ==
    {RawClaim(id, None, scene, None, None, None, NotAList) :
        id \in {None, "b", "Part2"},
        scene \in {None, "Part1", "Part2", " Part2"}}

PickClaimLists ==
    {normalize_claims(p) :
        p \in DictPayloads({<<None, None>>}, PickRawClaims, MaxClaims)}

RunIdle ==
    /\ src_exists = TRUE
    /\ py_files = << >>
    /\ quality = "m"
    /\ file_i = 1
    /\ scene_index = 0
    /\ cur = NoCur
    /\ manifest_items = << >>
    /\ had_errors = FALSE
    /\ render_log = << >>
    /\ temp_media = FALSE
    /\ manifest_file = NoManifest
    /\ exit_code = << >>
    /\ exit_path = "none"
    /\ refreshes = 0
    /\ disk = << >>
    /\ read_manifest = NoManifest

InitPick ==
    /\ RunIdle
    /\ pc = "call"
    /\ call \in [fn : {"pick"}, claims : PickClaimLists,
                 scene_name : SceneNames, scene_index : 0..MaxClaims]
    /\ ret = << >>

\* Lines 608, 620-629: the claim matched to a scene, and what the scene's
\* proof records of it.
PickCall ==
    /\ pc = "call"
    /\ call.fn = "pick"
    /\ LET selected == pick_claim_for_scene(call.claims, call.scene_name,
                                            call.scene_index)
       IN  ret' = [selected |-> selected,
                   activeClaimId |-> ActiveClaimId(call.claims, selected),
                   claims |-> ProofClaims(call.claims)]
    /\ pc' = "returned"
    /\ UNCHANGED <<run_vars, call>>

NextPick == PickCall

SpecPick == InitPick /\ [][NextPick]_vars

----------------------------------------------------------------------------
(* Claims about pick_claim_for_scene (specification SpecPick) *)

Picked == pc = "returned" /\ call.fn = "pick"

\* The claims whose scene field is exactly the scene name / is the scene
\* name once surrounding whitespace is trimmed / whose id is the scene name.
ExactSceneHits == {i \in 1..Len(call.claims) : call.claims[i].scene = call.scene_name}

TrimmedSceneHits ==
    {i \in 1..Len(call.claims) :
        call.claims[i].scene # None /\ Strip(call.claims[i].scene) = call.scene_name}

IdHits == {i \in 1..Len(call.claims) : call.claims[i].id = call.scene_name}

IsFirstOf(i, hits) == i \in hits /\ \A j \in hits : i <= j

\* C4 as stated: if some claim's scene field equals the scene identifier,
\* the matcher returns the first claim whose scene field equals it, whatever
\* the position and whatever claim has the identifier as its id.
C4_ExactSceneMatchReturned ==
    (Picked /\ ExactSceneHits # {}) => IsFirstOf(ret.selected, ExactSceneHits)

\* C4 amended: the comparison is made on the scene field trimmed of
\* surrounding whitespace: if some claim's trimmed scene field equals the
\* scene identifier, the matcher returns the first such claim, whatever the
\* position and whatever claim has the identifier as its id.
C4_TrimmedSceneMatchReturned ==
    (Picked /\ TrimmedSceneHits # {}) => IsFirstOf(ret.selected, TrimmedSceneHits)

\* C4 witness: the scene at position 0 is matched to the second claim by
\* its scene field although the first claim's id is the scene name.
C4_Witness ==
    /\ Picked
    /\ call.scene_index = 0
    /\ Len(call.claims) = 2
    /\ 1 \in IdHits
    /\ TrimmedSceneHits = {2}
    /\ ret.selected = 2

\* C5 as stated: when no claim's scene field equals the scene identifier
\* but some claim's id equals it, the matcher returns that claim (the first
\* one), whatever the position.
C5_IdMatchWhenNoExactScene ==
    (Picked /\ ExactSceneHits = {} /\ IdHits # {}) => IsFirstOf(ret.selected, IdHits)

\* C5 amended: when no claim's scene field, trimmed of surrounding
\* whitespace, equals the scene identifier but some claim's id equals it,
\* the matcher returns the first claim with that id, whatever the position.
C5_IdMatchWhenNoTrimmedScene ==
    (Picked /\ TrimmedSceneHits = {} /\ IdHits # {}) => IsFirstOf(ret.selected, IdHits)

\* C5 witness: the scene at position 0 is matched to the second claim by id.
C5_Witness ==
    /\ Picked
    /\ call.scene_index = 0
    /\ TrimmedSceneHits = {}
    /\ IdHits = {2}
    /\ ret.selected = 2

\* C6: when no claim matches by scene field or by id, the matcher returns
\* the claim at the scene's position p if 0 <= p < number of claims, else the
\* first claim if there is one, else no claim; with no claim the
\* activeClaimId is "main" and the contributed claims are the synthetic
\* [{id: main, label: main}].
C6_PositionThenFirstThenMain ==
    (Picked /\ TrimmedSceneHits = {} /\ IdHits = {}) =>
        /\ ret.selected =
              IF call.scene_index < Len(call.claims) THEN call.scene_index + 1
              ELSE IF Len(call.claims) > 0 THEN 1
              ELSE 0
        /\ ret.selected = 0 =>
              /\ ret.activeClaimId = "main"
              /\ Len(ret.claims) = 1
              /\ ret.claims[1].id = "main"
              /\ ret.claims[1].label = "main"
              /\ ret.claims[1].scene = None
              /\ ret.claims[1].statement = None
              /\ ret.claims[1].animationId = None
        /\ ret.selected # 0 => ret.activeClaimId = call.claims[ret.selected].id

\* C6 witness: two claims, no match, the scene at position 1 gets the
\* second claim.
C6_Witness ==
    /\ Picked
    /\ TrimmedSceneHits = {} /\ IdHits = {}
    /\ Len(call.claims) = 2
    /\ call.scene_index = 1
    /\ ret.selected = 2
    /\ ret.activeClaimId = call.claims[2].id

----------------------------------------------------------------------------
(* attach_claim_animation_links called on its own: every list of at most     *)
(* MaxEntries manifest entries of the shapes below.  An entry has the fields *)
(* main writes; its theoremId may be missing (the fallback keys then group   *)
(* it) and its proof.claims may be empty or come from an earlier manifest.   *)

AttachClaim(id, label, statement, animationId) ==
    [id |-> id, label |-> label, scene |-> None, statement |-> statement,
     animationId |-> animationId]

AttachClaimLists ==
    {<< >>,
     <<AttachClaim("a", "(a)", "", None)>>,
     <<[AttachClaim("a", "A", "law1", "limit__Part1") EXCEPT !.scene = "Part2"]>>,
     <<AttachClaim("b", "(b)", "law2", "demorgan__Part1"),
       AttachClaim("a", "(a)", "", None)>>}

\* <<item theoremId, proof theoremId>>
AttachKeys == {<<"T1", "T1">>, <<None, "T1">>, <<None, None>>,
               <<"demorgan__Part1", "demorgan__Part1">>}

\* The stem and the scene of the k-th entry of a list: distinct ids.
AttachSources == <<<<"demorgan", "Part1">>, <<"demorgan", "Part2">>,
                   <<"limit", "Part1">>>>

\* What varies from entry to entry: <<grouping key, activeClaimId, claims>>.
AttachChoices == AttachKeys \X {"a", "b", "main"} \X AttachClaimLists

AttachEntry(k, choice) ==
    BuildItem(AttachSources[k][1], AttachSources[k][2], "m", << >>,
              [title |-> None, description |-> None, statement |-> "",
               steps |-> << >>, claims |-> choice[3],
               activeClaimId |-> choice[2], theoremId |-> choice[1][2]],
              choice[1][1], None)

InitAttach ==
    /\ RunIdle
    /\ pc = "call"
    /\ \E n \in 0..MaxEntries : \E choices \in [1..n -> AttachChoices] :
          call = [fn |-> "attach",
                  items |-> [k \in 1..n |-> AttachEntry(k, choices[k])]]
    /\ ret = << >>

AttachCall ==
    /\ pc = "call"
    /\ call.fn = "attach"
    /\ ret' = attach_claim_animation_links(call.items)
    /\ pc' = "returned"
    /\ UNCHANGED <<run_vars, call>>

\* The function applied to what the first call returned: ret then holds
\* both results.
AttachCallAgain ==
    /\ pc = "returned"
    /\ call.fn = "attach"
    /\ ret' = [first |-> ret, second |-> attach_claim_animation_links(ret)]
    /\ pc' = "returned_again"
    /\ UNCHANGED <<run_vars, call>>

NextAttach == AttachCall \/ AttachCallAgain

SpecAttach == InitAttach /\ [][NextAttach]_vars

----------------------------------------------------------------------------
(* Claims about attach_claim_animation_links (specification SpecAttach) *)

Attached == pc = "returned" /\ call.fn = "attach"

\* The theorem group of an entry: its theoremId, else its proof's
\* theoremId, else its own id (the fallback key).
TheoremKey(e) ==
    IF Truthy(e.theoremId) THEN e.theoremId
    ELSE IF Truthy(e.proof.theoremId) THEN e.proof.theoremId
    ELSE e.id

SameTheorem(e1, e2) == TheoremKey(e1) = TheoremKey(e2)

\* C1: after attach_claim_animation_links, any two entries of the same
\* theorem group carry the same proof.claims list, element by element.
C1_GroupSharesClaims ==
    Attached =>
        \A i, j \in 1..Len(ret) :
            SameTheorem(ret[i], ret[j]) =>
                /\ Len(ret[i].proof.claims) = Len(ret[j].proof.claims)
                /\ \A k \in 1..Len(ret[i].proof.claims) :
                      ret[i].proof.claims[k] = ret[j].proof.claims[k]

\* C1 witness: two entries of one group that came in with different claim
\* lists (and render different claims) leave with the same non-empty list.
C1_Witness ==
    /\ Attached
    /\ Len(ret) = 2
    /\ SameTheorem(ret[1], ret[2])
    /\ call.items[1].proof.claims # call.items[2].proof.claims
    /\ call.items[1].proof.activeClaimId # call.items[2].proof.activeClaimId
    /\ ret[1].proof.claims = ret[2].proof.claims
    /\ Len(ret[1].proof.claims) = 2

\* C2: after attach_claim_animation_links, every claim of a group's list
\* that has an animationId names an entry of that same group, and that
\* entry's activeClaimId is the claim's id.
C2_AnimationIdNamesRenderingEntry ==
    Attached =>
        \A i \in 1..Len(ret) :
            \A k \in 1..Len(ret[i].proof.claims) :
                LET claim == ret[i].proof.claims[k]
                    named == {j \in 1..Len(ret) : ret[j].id = claim.animationId}
                IN  claim.animationId # None =>
                        /\ named # {}
                        /\ \A j \in named :
                              /\ SameTheorem(ret[j], ret[i])
                              /\ ret[j].proof.activeClaimId = claim.id

\* C2 witness: two groups; a claim that came in bound to an entry of the
\* other group leaves bound to the entry of its own group that renders it.
C2_Witness ==
    /\ Attached
    /\ Len(ret) = 2
    /\ ~SameTheorem(ret[1], ret[2])
    /\ \E k \in 1..Len(call.items[2].proof.claims) :
          /\ call.items[2].proof.claims[k].animationId = ret[1].id
          /\ call.items[2].proof.claims[k].id = ret[2].proof.activeClaimId
    /\ \E k \in 1..Len(ret[2].proof.claims) :
          /\ ret[2].proof.claims[k].id = ret[2].proof.activeClaimId
          /\ ret[2].proof.claims[k].animationId = ret[2].id

----------------------------------------------------------------------------
(* Claims about a full run (specification Spec) *)

\* The state a full run that rendered leaves: main returned at line 669
\* and manifest_file is what it wrote.
FullRunDone == pc = "done" /\ exit_path = "rendered" /\ refreshes = 0

AllRendersOk == \A i \in 1..Len(render_log) : render_log[i].ok

\* The claim of an entry's list that has the given id (claims of a list
\* have distinct ids after attach_claim_animation_links).
ClaimsWithId(e, cid) ==
    {k \in 1..Len(e.proof.claims) : e.proof.claims[k].id = cid}

\* The example of the spec: demorgan.py declares Part1 and Part2,
\* demorgan.proof.json holds the claims a (scene Part1) and b (scene Part2).
DemorganFile ==
    [stem |-> "demorgan",
     declared |-> <<"Part1", "Part2">>,
     desc |-> ParsedDesc(
        Payload("dict", None, None, None, None, None, NotAList,
                <<RawClaim("a", None, "Part1", None, None, "law1", NotAList),
                  RawClaim("b", None, "Part2", None, None, "law2", NotAList)>>,
                FALSE, << >>))]

DemorganManifest ==
    LET items == manifest_file.items
    IN  /\ Len(items) = 2
        /\ items[1].id = "demorgan__Part1"
        /\ items[2].id = "demorgan__Part2"
        /\ Len(items[1].proof.claims) = 2
        /\ Len(items[2].proof.claims) = 2
        /\ items[1].proof.activeClaimId = "a"
        /\ \E k \in ClaimsWithId(items[1], "a") :
              items[1].proof.claims[k].animationId = "demorgan__Part1"

\* C3: in a full run, when the entries of a theorem group render pairwise
\* distinct claims, each entry's proof.claims contains the claim whose id is
\* the entry's activeClaimId and that claim's animationId is the entry's id;
\* the demorgan example gives two entries, two claims, Part1 rendering a.
C3_DistinctClaimsLinkToOwnEntry ==
    FullRunDone =>
        LET items == manifest_file.items
            Distinct(i) ==
                \A j, k \in 1..Len(items) :
                    (/\ SameTheorem(items[j], items[i])
                     /\ SameTheorem(items[k], items[i])
                     /\ j # k)
                    => items[j].proof.activeClaimId # items[k].proof.activeClaimId
        IN  /\ \A i \in 1..Len(items) :
                  Distinct(i) =>
                      \E k \in ClaimsWithId(items[i], items[i].proof.activeClaimId) :
                          items[i].proof.claims[k].animationId = items[i].id
            /\ (py_files = <<DemorganFile>> /\ AllRendersOk) => DemorganManifest

\* C3 witness: the demorgan example has run, both scenes rendered.
C3_Witness ==
    /\ FullRunDone
    /\ py_files = <<DemorganFile>>
    /\ AllRendersOk
    /\ DemorganManifest

\* The source file a run rendered an entry from.
RunFile(source_rel) ==
    CHOOSE f \in Range(py_files) : SourcePath(f.stem) = source_rel

\* The theoremId the spec gives a source file: the first non-empty of the
\* description's id, its tags.number (trimmed), and the stem.
NonEmptyText(v) == v # None /\ Strip(v) # ""

ExpectedTheoremId(file) ==
    LET payload == file.desc.value
    IN  IF file.desc.exists /\ file.desc.parses /\ payload.kind = "dict"
        THEN IF NonEmptyText(payload.id) THEN Strip(payload.id)
             ELSE IF NonEmptyText(payload.tags_number) THEN Strip(payload.tags_number)
             ELSE file.stem
        ELSE file.stem

\* C7: the theoremId of every entry produced for a source file is the first
\* non-empty of the description file's id, its normalized tags.number and
\* the stem; a description with neither id nor number, and an absent
\* description, give the stem.
C7_TheoremIdFirstNonEmpty ==
    /\ \A i \in 1..Len(manifest_items) :
          manifest_items[i].theoremId =
              ExpectedTheoremId(RunFile(manifest_items[i].source))
    /\ (pc = "done" /\ exit_path = "refreshed") =>
          \A i \in 1..Len(manifest_file.items) :
              SourceExists(manifest_file.items[i].source) =>
                  manifest_file.items[i].theoremId =
                      ExpectedTheoremId(SourceFile(manifest_file.items[i].source))

\* The one-element claims list of the spec's scenario, bound to an entry.
MainClaimsBoundTo(entry_id) ==
    <<[id |-> "main", label |-> "main", scene |-> None, statement |-> None,
       animationId |-> entry_id]>>

NoDescription(e) == ~RunFile(e.source).desc.exists

LastEntryOfSource(items, source) ==
    LET last == CHOOSE i \in 1..Len(items) :
                    /\ items[i].source = source
                    /\ \A j \in 1..Len(items) : items[j].source = source => j <= i
    IN  items[last].id

RECURSIVE DiscoveredPairs(_)
DiscoveredPairs(files) ==
    IF files = << >> THEN << >>
    ELSE LET scenes == discover_scenes(Head(files))
         IN  [k \in 1..Len(scenes) |->
                [stem |-> Head(files).stem, scene |-> scenes[k]]]
             \o DiscoveredPairs(Tail(files))

\* C9: a renderer failure does not stop a full run: every discovered pair is
\* passed to the renderer exactly once, in file order then scene order, and
\* the written manifest has exactly one entry <stem>__<scene> for each pair
\* whose render succeeded, none for a pair whose render failed.
C9_ManifestHoldsEverySuccessfulRender ==
    FullRunDone =>
        LET rendered == SelectSeq(render_log, LAMBDA r : r.ok)
        IN  /\ [k \in 1..Len(render_log) |->
                  [stem |-> render_log[k].stem, scene |-> render_log[k].scene]]
               = DiscoveredPairs(py_files)
            /\ [k \in 1..Len(manifest_file.items) |-> manifest_file.items[k].id]
               = [k \in 1..Len(rendered) |->
                    rendered[k].stem \o "__" \o rendered[k].scene]

\* C10: the exit code is 0 when every scene rendered successfully, 1 when
\* at least one scene failed to render, and in text-only mode 1 whenever the
\* manifest is there but cannot be read (unparseable, or items not a list).
C10_ExitCode ==
    /\ FullRunDone => exit_code = (IF AllRendersOk THEN <<0>> ELSE <<1>>)
    /\ (/\ pc = "done"
        /\ refreshes > 0
        /\ manifest_file.exists
        /\ ~manifest_file.parses \/ ~manifest_file.items_is_list)
       => exit_code = <<1>>

----------------------------------------------------------------------------
(* Claims about refresh_text_only *)

RefreshPaths == {"refresh_no_manifest", "refresh_unreadable",
                 "refresh_items_not_list", "refresh_exception", "refreshed"}

\* The last invocation was a --text-only one: read_manifest is the manifest
\* it found and manifest_file the one it left.
AfterRefresh == pc = "done" /\ exit_path \in RefreshPaths

\* A render pass ran to its end before.
RunHappened == py_files # << >> /\ file_i > Len(py_files)

LoggedPairs ==
    [k \in 1..Len(render_log) |->
        [stem |-> render_log[k].stem, scene |-> render_log[k].scene]]

\* The fields of an entry a refresh reuses.
FrameFields(e) == <<e.id, e.scene, e.source, e.file, e.url, e.quality, e.sections>>

\* C11: a text-only refresh never invokes the renderer (the renderer has
\* been called for the pairs of the render pass before it, if any, and for
\* nothing else), and for every entry of the manifest it read the manifest
\* it leaves holds exactly one entry with the same id, whose id, scene,
\* source, file, url, quality and sections are the values read.
C11_RefreshKeepsArtifacts ==
    AfterRefresh =>
        /\ LoggedPairs = (IF RunHappened THEN DiscoveredPairs(py_files) ELSE << >>)
        /\ Len(manifest_file.items) = Len(read_manifest.items)
        /\ \A i \in 1..Len(read_manifest.items) :
              LET same == {j \in 1..Len(manifest_file.items) :
                              manifest_file.items[j].id = read_manifest.items[i].id}
              IN  /\ Cardinality(same) = 1
                  /\ \A j \in same :
                        FrameFields(manifest_file.items[j])
                            = FrameFields(read_manifest.items[i])

\* C11 witness: a refresh rewrote the proof of an entry of a two-entry
\* manifest that a render pass had written.
C11_Witness ==
    /\ AfterRefresh
    /\ exit_path = "refreshed"
    /\ render_log # << >>
    /\ Len(read_manifest.items) = 2
    /\ \E i \in 1..2 : manifest_file.items[i].proof # read_manifest.items[i].proof
    /\ \A i \in 1..2 : FrameFields(manifest_file.items[i])
                          = FrameFields(read_manifest.items[i])

\* C12: in a text-only refresh, every item whose source file no longer
\* exists appears in the manifest the refresh leaves unchanged: all its
\* fields, proof and proof.claims included, are the values read.
C12_MissingSourcePassedThrough ==
    AfterRefresh =>
        \A i \in 1..Len(read_manifest.items) :
            ~SourceExists(read_manifest.items[i].source) =>
                \E j \in 1..Len(manifest_file.items) :
                    manifest_file.items[j] = read_manifest.items[i]

\* C13: in a text-only refresh, if the manifest found cannot be parsed or
\* its items field is not a list, the refresh returns 1 and the manifest
\* file is left as it was found.
C13_UnusableManifestLeftAlone ==
    (/\ AfterRefresh
     /\ read_manifest.exists
     /\ ~read_manifest.parses \/ ~read_manifest.items_is_list)
    => /\ exit_code = <<1>>
       /\ manifest_file = read_manifest

\* C13 witness: a refresh returned 1 on a manifest whose items is not a
\* list, and the file is still that manifest.
C13_Witness ==
    /\ AfterRefresh
    /\ exit_path = "refresh_items_not_list"
    /\ exit_code = <<1>>
    /\ read_manifest = ManifestFile(TRUE, TRUE, FALSE, << >>)
    /\ manifest_file = ManifestFile(TRUE, TRUE, FALSE, << >>)

----------------------------------------------------------------------------
(* Claims about description files *)

\* The entry the render pass writes for a scene of a source file that has no
\* description file and shares its theorem group with no other file.
EntryWithoutDescription(e, items) ==
    LET stem == RunFile(e.source).stem
        theorem_id == TheoremId(NonePayload, stem)
        proof == BuildProof(NonePayload, normalize_claims(NonePayload),
                            theorem_id, e.scene, 0)
    IN  BuildItem(stem, e.scene, e.quality, e.sections,
                  [proof EXCEPT !.claims =
                      MainClaimsBoundTo(LastEntryOfSource(items, e.source))],
                  theorem_id, None)

MalformedDescription(e) == RunFile(e.source).desc = MalformedDesc

\* C14: a description file that is malformed JSON never aborts the run: the
\* renderer is called for every discovered pair of every file, and each
\* entry of the source file is the entry an absent description file gives
\* (theoremId = stem, no proofSource, the synthetic main claim).
C14_MalformedDescriptionAsAbsent ==
    FullRunDone =>
        /\ LoggedPairs = DiscoveredPairs(py_files)
        /\ \A i \in 1..Len(manifest_file.items) :
              LET e == manifest_file.items[i]
              IN  MalformedDescription(e) =>
                    /\ e = EntryWithoutDescription(e, manifest_file.items)
                    /\ e.theoremId = RunFile(e.source).stem
                    /\ e.proof.activeClaimId = "main"

\* C14 witness: the first file has a malformed description and the second
\* file was rendered after it; both have an entry.
C14_Witness ==
    /\ FullRunDone
    /\ Len(py_files) = 2
    /\ py_files[1].desc = MalformedDesc
    /\ Len(manifest_file.items) = 2
    /\ manifest_file.items[1].source = SourcePath(py_files[1].stem)
    /\ manifest_file.items[1].theoremId = py_files[1].stem
    /\ manifest_file.items[1].proofSource = None
    /\ manifest_file.items[2].source = SourcePath(py_files[2].stem)

\* A description file that is a non-empty bare array of steps.
BareArray(desc) ==
    desc.exists /\ desc.parses /\ desc.value.kind = "list"
    /\ desc.value.steps.items # << >>

\* C15: when the description file of a source is a non-empty bare array,
\* every scene of the source whose render succeeds gets a manifest entry
\* whose proof.steps is that array, in a render pass and likewise in a
\* text-only refresh (which returns 0 and writes, for every entry of such a
\* source, an entry whose proof.steps is the array).
C15_BareArrayGivesSteps ==
    /\ FullRunDone =>
          \A k \in 1..Len(render_log) :
              LET file == RunFile(SourcePath(render_log[k].stem))
              IN  (render_log[k].ok /\ BareArray(file.desc)) =>
                      \E i \in 1..Len(manifest_file.items) :
                          /\ manifest_file.items[i].id =
                                EntryId(render_log[k].stem, render_log[k].scene)
                          /\ manifest_file.items[i].proof.steps =
                                file.desc.value.steps.items
    /\ AfterRefresh =>
          \A i \in 1..Len(read_manifest.items) :
              LET e == read_manifest.items[i]
              IN  (SourceExists(e.source) /\ BareArray(SourceFile(e.source).desc)) =>
                      /\ exit_code = <<0>>
                      /\ \E j \in 1..Len(manifest_file.items) :
                            /\ manifest_file.items[j].id = e.id
                            /\ manifest_file.items[j].proof.steps =
                                  SourceFile(e.source).desc.value.steps.items

\* A claims list without the animationId its claims carry.
WithoutAnimation(claims) ==
    [k \in 1..Len(claims) |-> [claims[k] EXCEPT !.animationId = None]]

\* The artifact fields of an entry.
ArtifactFields(e) == <<e.file, e.url, e.quality, e.sections>>

\* A refresh ran after a render pass on the files the pass rendered from.
RoundTrip == AfterRefresh /\ RunHappened /\ disk = py_files

\* C16: a render pass followed by a text-only refresh on the same inputs
\* yields (with exit code 0) a manifest with the same entries, each with
\* the file, url, quality and sections of the render pass and a
\* proof.claims list equal to that of the render pass up to the animationId
\* each claim carries.
C16_RoundTripKeepsClaims ==
    RoundTrip =>
        /\ exit_code = <<0>>
        /\ Len(manifest_file.items) = Len(manifest_items)
        /\ \A i \in 1..Len(manifest_items) :
              /\ manifest_file.items[i].id = manifest_items[i].id
              /\ ArtifactFields(manifest_file.items[i])
                    = ArtifactFields(manifest_items[i])
              /\ WithoutAnimation(manifest_file.items[i].proof.claims)
                    = WithoutAnimation(manifest_items[i].proof.claims)

\* C16 witness: after the round trip a claim carries another animationId
\* than after the render pass, and the lists are equal apart from that.
C16_Witness ==
    /\ RoundTrip
    /\ exit_path = "refreshed"
    /\ Len(manifest_items) = 2
    /\ manifest_file.items[1].proof.claims # manifest_items[1].proof.claims
    /\ WithoutAnimation(manifest_file.items[1].proof.claims)
          = WithoutAnimation(manifest_items[1].proof.claims)

----------------------------------------------------------------------------
(* Claims about the temporary media directory *)

\* C17: the temporary media directory exists once the renders of a pass
\* have begun, is removed when the pass completes with no render failure,
\* and is still present at the end of a pass in which at least one render
\* failed.
C17_TempMediaRemovedOnSuccess ==
    /\ (pc \in {"load", "render"} /\ render_log # << >>) => temp_media
    /\ FullRunDone => (temp_media <=> ~AllRendersOk)

----------------------------------------------------------------------------
(* normalize_tags called on its own, then on what it returned *)

MaxSubjects == 2

\* The normalized object read as an entry: its keys are root keys, an
\* omitted key is absent.
TagsAsEntry(tags) ==
    TagSource(NoSubjects, NoSubjects, None, None, None,
              IF tags.subjects # << >> THEN SubjectList(tags.subjects)
              ELSE NoSubjects,
              NoSubjects, tags.chapter, tags.number, None, None)

TagSubjectValues ==
    {NoSubjects, SubjectText(""), SubjectText(" b")} \cup
    {SubjectList(l) : l \in SeqsUpTo({None, "b", " b", "x"}, MaxSubjects)}

TagEntries ==
    {TagSource(ts, tj, tc, tn, None, rs, NoSubjects, rc, rn, rg, rl) :
        ts \in TagSubjectValues,
        tj \in {NoSubjects, SubjectText("x")},
        tc \in {None, "", " 1.2 "},
        tn \in {None, " "},
        rs \in {NoSubjects, SubjectText(" "), SubjectList(<<"x", "b", "x">>)},
        rc \in {None, "x"},
        rn \in {None, "1.2"},
        rg \in {None, "x"},
        rl \in {None, " b"}}

InitTags ==
    /\ RunIdle
    /\ pc = "call"
    /\ call \in [fn : {"tags"}, entry : TagEntries]
    /\ ret = << >>

TagsCall ==
    /\ pc = "call"
    /\ call.fn = "tags"
    /\ ret' = <<normalize_tags(call.entry)>>
    /\ pc' = "returned"
    /\ UNCHANGED <<run_vars, call>>

TagsCallAgain ==
    /\ pc = "returned"
    /\ call.fn = "tags"
    /\ ret' = Append(ret, normalize_tags(TagsAsEntry(ret[1])))
    /\ pc' = "returned_again"
    /\ UNCHANGED <<run_vars, call>>

NextTags == TagsCall \/ TagsCallAgain

SpecTags == InitTags /\ [][NextTags]_vars

\* C18: normalize_tags is idempotent: normalizing what it returned gives
\* the same object.
C18_NormalizeTagsIdempotent ==
    (pc = "returned_again" /\ call.fn = "tags") => ret[2] = ret[1]

\* C18 witness: an entry whose subjects, chapter and number all needed
\* trimming or deduplication was normalized twice.
C18_Witness ==
    /\ pc = "returned_again"
    /\ call.fn = "tags"
    /\ call.entry.subjects = SubjectList(<<"x", "b", "x">>)
    /\ call.entry.t_chapter = " 1.2 "
    /\ call.entry.label = " b"
    /\ ret[1] = [subjects |-> <<"x", "b">>, chapter |-> "1.2", number |-> "b"]
    /\ ret[2] = ret[1]

----------------------------------------------------------------------------
(* Claims about discover_scenes and normalize_claims *)

\* C19: the scene list discovered for a source file is in the declaration
\* order of the scenes in the file, and the position given to the claim
\* matcher in a render pass is the scene's zero-based index in that order.
C19_ScenesInDeclarationOrder ==
    pc = "render" =>
        /\ cur.scenes = py_files[file_i].declared
        /\ cur.scenes[scene_index + 1] = py_files[file_i].declared[scene_index + 1]

\* C20: the claim sequence normalize_claims returns for a description file
\* has pairwise distinct ids, whatever mix of author-supplied and derived
\* ids the file holds.
C20_ClaimIdsDistinct ==
    pc = "render" =>
        \A i, j \in 1..Len(cur.claims) :
            i # j => cur.claims[i].id # cur.claims[j].id

----------------------------------------------------------------------------
(* Further claims about attach_claim_animation_links (specification         *)
(* SpecAttach)                                                               *)

\* The entries of ret that are in the theorem group of ret[i] and render
\* the claim cid.
RenderersOf(i, cid) ==
    {j \in 1..Len(ret) :
        SameTheorem(ret[j], ret[i]) /\ ret[j].proof.activeClaimId = cid}

\* C21: after attach_claim_animation_links, a claim of a theorem group
\* carries an animationId only if some entry of the group has activeClaimId
\* equal to the claim's id; a claim that no entry renders has none, also
\* when it came in with an animationId from a previous manifest.
C21_AnimationIdOnlyIfRendered ==
    Attached =>
        \A i \in 1..Len(ret) :
            \A k \in 1..Len(ret[i].proof.claims) :
                LET claim == ret[i].proof.claims[k]
                IN  RenderersOf(i, claim.id) = {} => claim.animationId = None

\* C21 witness: a claim came in bound to an animation, no entry of its
\* group renders it, and it leaves without animationId.
C21_Witness ==
    /\ Attached
    /\ \E i \in 1..Len(ret) :
          \E k \in 1..Len(call.items[i].proof.claims) :
              LET cid == call.items[i].proof.claims[k].id
              IN  /\ call.items[i].proof.claims[k].animationId # None
                  /\ RenderersOf(i, cid) = {}
                  /\ \E m \in 1..Len(ret[i].proof.claims) :
                        /\ ret[i].proof.claims[m].id = cid
                        /\ ret[i].proof.claims[m].animationId = None

\* The positions in the claims list of ret[i] of the claims bound to the
\* entry entry_id.
BoundTo(i, entry_id) ==
    {k \in 1..Len(ret[i].proof.claims) :
        ret[i].proof.claims[k].animationId = entry_id}

\* C22: when two or more entries of one theorem group have the same
\* activeClaimId, the claim's animationId is the id of the entry that comes
\* last in the input list; the call returns (no error), and the other
\* entries are bound to no claim.
C22_LastEntryWinsClaim ==
    Attached =>
        /\ Len(ret) = Len(call.items)
        /\ \A i, j \in 1..Len(ret) :
              (/\ i < j
               /\ SameTheorem(ret[i], ret[j])
               /\ ret[i].proof.activeClaimId = ret[j].proof.activeClaimId
               /\ RenderersOf(j, ret[j].proof.activeClaimId) \cap (j + 1)..Len(ret) = {})
              => /\ \E k \in BoundTo(j, ret[j].id) :
                       ret[j].proof.claims[k].id = ret[j].proof.activeClaimId
                 /\ BoundTo(j, ret[i].id) = {}

\* C22 witness: two entries of one group render the same claim, and the
\* claim leaves bound to the second.
C22_Witness ==
    /\ Attached
    /\ Len(ret) = 2
    /\ SameTheorem(ret[1], ret[2])
    /\ ret[1].proof.activeClaimId = ret[2].proof.activeClaimId
    /\ BoundTo(1, ret[2].id) # {}
    /\ BoundTo(1, ret[1].id) = {}

\* The fields the first loop of attach_claim_animation_links merges.
MergedFields == {"label", "statement", "scene"}

\* The claims with id cid that the entries of the group of call.items[i]
\* contribute, in scanning order: the group's entries in list order, each
\* entry's claims in order (an entry without claims contributes the one
\* claim synthesized from its activeClaimId).
ScannedClaims(i, cid) ==
    LET group == SelectSeq(call.items,
                           LAMBDA e : TheoremKey(e) = TheoremKey(call.items[i]))
        lists == [g \in 1..Len(group) |-> ContributedClaims(group[g])]
    IN  SelectSeq(Flatten(lists), LAMBDA c : c.id = cid)

\* The first non-empty value of field among claims, None when there is none.
FirstNonEmpty(claims, field) ==
    LET hits == {k \in 1..Len(claims) : Truthy(claims[k][field])}
    IN  IF hits = {} THEN None
        ELSE claims[CHOOSE k \in hits : \A m \in hits : k <= m][field]

\* C23: attach_claim_animation_links merges the claims of a group by id so
\* that, for each of label, statement and scene, the merged claim holds the
\* first non-empty value found when scanning the group's entries in list
\* order and each entry's claims in order; a later entry never overwrites a
\* field that is already populated.
C23_FirstNonEmptyFieldWins ==
    Attached =>
        \A i \in 1..Len(ret) :
            \A k \in 1..Len(ret[i].proof.claims) :
                \A field \in MergedFields :
                    LET claim == ret[i].proof.claims[k]
                        found == FirstNonEmpty(ScannedClaims(i, claim.id), field)
                    IN  found # None => claim[field] = found

\* C23 witness: two entries of one group contribute the same claim with
\* different labels, the first with an empty statement and no scene, the
\* second with both; the merged claim has the first entry's label and the
\* second entry's statement and scene.
C23_Witness ==
    /\ Attached
    /\ Len(ret) = 2
    /\ SameTheorem(ret[1], ret[2])
    /\ \E k1 \in 1..Len(call.items[1].proof.claims) :
          \E k2 \in 1..Len(call.items[2].proof.claims) :
              \E k \in 1..Len(ret[2].proof.claims) :
                  LET c1 == call.items[1].proof.claims[k1]
                      c2 == call.items[2].proof.claims[k2]
                      merged == ret[2].proof.claims[k]
                  IN  /\ c1.id = c2.id /\ merged.id = c1.id
                      /\ Truthy(c1.label) /\ Truthy(c2.label)
                      /\ c1.label # c2.label
                      /\ ~Truthy(c1.statement) /\ Truthy(c2.statement)
                      /\ ~Truthy(c1.scene) /\ Truthy(c2.scene)
                      /\ merged.label = c1.label
                      /\ merged.statement = c2.statement
                      /\ merged.scene = c2.scene

\* C24: after attach_claim_animation_links, every entry's proof.claims is
\* sorted by claim id in strictly increasing lexicographic order, so no two
\* of its claims have the same id.
C24_ClaimsSortedById ==
    Attached =>
        \A i \in 1..Len(ret) :
            \A k \in 1..(Len(ret[i].proof.claims) - 1) :
                StrLess(ret[i].proof.claims[k].id, ret[i].proof.claims[k + 1].id)

\* C24 witness: an entry came in with its claims in decreasing id order
\* and leaves with the same ids in increasing order.
C24_Witness ==
    /\ Attached
    /\ \E i \in 1..Len(ret) :
          /\ Len(call.items[i].proof.claims) = 2
          /\ StrLess(call.items[i].proof.claims[2].id, call.items[i].proof.claims[1].id)
          /\ Len(ret[i].proof.claims) >= 2
          /\ ret[i].proof.claims[1].id = call.items[i].proof.claims[2].id
          /\ ret[i].proof.claims[2].id = call.items[i].proof.claims[1].id

----------------------------------------------------------------------------
(* Claims about the scene position in a text-only refresh *)

\* The zero-based position of scene_name among the scenes discovered in
\* file.
ScenePosition(file, scene_name) ==
    (CHOOSE p \in 1..Len(discover_scenes(file)) :
        discover_scenes(file)[p] = scene_name) - 1

\* The activeClaimId a render pass gives scene_name of file.
FullRunActiveClaimId(file, scene_name) ==
    LET claims == normalize_claims(load_proof_payload(file).payload)
    IN  ActiveClaimId(claims,
                      pick_claim_for_scene(claims, scene_name,
                                           ScenePosition(file, scene_name)))

\* C25: in a text-only refresh the claim matcher is given the zero-based
\* position of the entry's scene among the scenes discovered in its source
\* file, so every refreshed entry gets the activeClaimId a render pass
\* gives that scene, whatever entries the manifest read holds.
C25_RefreshUsesScenePosition ==
    (pc = "done" /\ exit_path = "refreshed") =>
        \A i \in 1..Len(manifest_file.items) :
            LET e == manifest_file.items[i]
            IN  SourceExists(e.source) =>
                    e.proof.activeClaimId
                        = FullRunActiveClaimId(SourceFile(e.source), e.scene)

----------------------------------------------------------------------------
(* normalize_claims called on its own: every description object whose       *)
(* "claims" is a list of at most MaxClaims of the raw claims below.          *)

\* Raw claims with and without id and label; " b" is an id with padding,
\* " " an id or label of whitespace only.
LabelledRawClaims ==
    {RawClaim(id, label, None, None, None, "law", NotAList) :
        id \in {None, "b", " b", " "}, label \in {None, "A", " "}}

InitClaims ==
    /\ RunIdle
    /\ pc = "call"
    /\ \E n \in 0..MaxClaims : \E raw \in [1..n -> LabelledRawClaims] :
          call = [fn |-> "claims",
                  payload |-> Payload("dict", None, None, None, None, None,
                                      NotAList, raw, FALSE, << >>)]
    /\ ret = << >>

ClaimsCall ==
    /\ pc = "call"
    /\ call.fn = "claims"
    /\ ret' = normalize_claims(call.payload)
    /\ pc' = "returned"
    /\ UNCHANGED <<run_vars, call>>

NextClaims == ClaimsCall

SpecClaims == InitClaims /\ [][NextClaims]_vars

ClaimsReturned == pc = "returned" /\ call.fn = "claims"

\* The label every returned claim must have, given its id.
LabelOrDefault(entry, id) ==
    IF Truthy(entry.label) THEN entry.label ELSE "(" \o id \o ")"

SuppliedId(entry) ==
    IF Truthy(entry.id) THEN entry.id
    ELSE IF Truthy(entry.label) THEN entry.label
    ELSE None

----------------------------------------------------------------------------
(* render_definition_animations (build_definitions.py), called on its own   *)

\* _humanize_section on the names of the model: a leading "section_" is
\* dropped, the words are capitalised.
Humanize(stem) ==
    CASE stem = "section_intro" -> "Intro"
      [] OTHER -> stem

\* What one call of render_scene can do for a definition scene: raise, or
\* return the clip and the section files (their stems) manim saved.
DefinitionOutcomes ==
    {[ok |-> FALSE, labels |-> << >>],
     [ok |-> TRUE, labels |-> << >>],
     [ok |-> TRUE, labels |-> <<"section_intro">>]}

\* saved_sections of render_scene for out_dir public/definitions.
SavedSections(stem, scene_name, labels) ==
    [idx \in 1..Len(labels) |->
        LET id == EntryId(stem, scene_name) \o "__" \o labels[idx]
        IN  [index |-> idx - 1,
             id |-> id,
             name |-> Humanize(labels[idx]),
             file |-> "definitions/sections/" \o id \o ".mp4",
             url |-> "/definitions/sections/" \o id \o ".mp4"]]

\* The section entry of the scene at 0-based idx.
SceneSection(stem, scene_name, idx) ==
    [index |-> idx,
     id |-> EntryId(stem, scene_name),
     name |-> Humanize(scene_name),
     file |-> "definitions/" \o EntryId(stem, scene_name) \o ".mp4",
     url |-> "/definitions/" \o EntryId(stem, scene_name) \o ".mp4"]

\* section_entries after the scenes from the 1-based position k on: a scene
\* that renders adds its own entry and then its saved sections, a scene
\* that fails adds nothing.
RECURSIVE SectionEntries(_, _, _, _)
SectionEntries(stem, scenes, outcomes, k) ==
    IF k > Len(scenes) THEN << >>
    ELSE (IF outcomes[k].ok
          THEN <<SceneSection(stem, scenes[k], k - 1)>>
               \o SavedSections(stem, scenes[k], outcomes[k].labels)
          ELSE << >>)
         \o SectionEntries(stem, scenes, outcomes, k + 1)

\* sorted(section_entries, key=index): stable.
RECURSIVE SortByIndex(_)
SortByIndex(entries) ==
    IF entries = << >> THEN << >>
    ELSE LET front == SortByIndex(SubSeq(entries, 1, Len(entries) - 1))
             last == entries[Len(entries)]
             n == Cardinality({i \in 1..Len(front) : front[i].index <= last.index})
         IN  SubSeq(front, 1, n) \o <<last>> \o SubSeq(front, n + 1, Len(front))

\* What the loop body adds to results for one file: nothing for a file
\* without scenes, and nothing unless main_clip was set, which happens only
\* when the scene at idx 0 renders.
FileAnimations(file, quality_) ==
    LET scenes == discover_scenes(file)
    IN  IF scenes = << >> \/ ~file.outcomes[1].ok THEN << >>
        ELSE <<[stem |-> file.stem,
                url |-> "/definitions/" \o EntryId(file.stem, scenes[1]) \o ".mp4",
                file |-> "definitions/" \o EntryId(file.stem, scenes[1]) \o ".mp4",
                quality |-> quality_,
                name |-> Humanize(scenes[1]),
                sections |-> SortByIndex(SectionEntries(file.stem, scenes,
                                                        file.outcomes, 1))]>>

\* The calls of render_scene for one file: every scene, in order.
FileRenderCalls(file) ==
    [k \in 1..Len(discover_scenes(file)) |->
        [stem |-> file.stem, scene |-> discover_scenes(file)[k],
         ok |-> file.outcomes[k].ok]]

\* What the function returns and the calls of render_scene it made.  The
\* results dict is the sequence of its values in insertion order, each
\* holding its key in stem.  is_pair is FALSE for the bare {} returned when
\* the source folder is missing.
render_definition_animations(exists, manim, files, quality_) ==
    IF ~exists
    THEN [is_pair |-> FALSE, animations |-> << >>, had_errors |-> FALSE,
          calls |-> << >>]
    ELSE IF ~manim
    THEN [is_pair |-> TRUE, animations |-> << >>, had_errors |-> TRUE,
          calls |-> << >>]
    ELSE LET calls == Flatten([i \in 1..Len(files) |-> FileRenderCalls(files[i])])
         IN  [is_pair |-> TRUE,
              animations |-> Flatten([i \in 1..Len(files) |->
                                        FileAnimations(files[i], quality_)]),
              had_errors |-> \E k \in 1..Len(calls) : ~calls[k].ok,
              calls |-> calls]

\* A definition source file: its scenes and what render_scene does for
\* each scene discovered.
DefinitionStems == <<"group", "ring">>

DefinitionFile(stem, declared, outcomes) ==
    [stem |-> stem, declared |-> declared, outcomes |-> outcomes]

InitDefinitions ==
    /\ RunIdle
    /\ pc = "call"
    /\ \E exists \in BOOLEAN, manim \in BOOLEAN, n \in 0..Len(DefinitionStems) :
          \E declared \in [1..n -> SceneLists] :
              \E o1 \in [1..(IF n >= 1 THEN Len(declared[1]) ELSE 0) -> DefinitionOutcomes] :
                  \E o2 \in [1..(IF n >= 2 THEN Len(declared[2]) ELSE 0) -> DefinitionOutcomes] :
                      call = [fn |-> "definitions", exists |-> exists,
                              manim |-> manim,
                              files |-> [i \in 1..n |->
                                           DefinitionFile(DefinitionStems[i], declared[i],
                                                          IF i = 1 THEN o1 ELSE o2)]]
    /\ ret = << >>

DefinitionsCall ==
    /\ pc = "call"
    /\ call.fn = "definitions"
    /\ ret' = render_definition_animations(call.exists, call.manim, call.files, "m")
    /\ pc' = "returned"
    /\ UNCHANGED <<run_vars, call>>

NextDefinitions == DefinitionsCall

SpecDefinitions == InitDefinitions /\ [][NextDefinitions]_vars

DefinitionsRendered ==
    pc = "returned" /\ call.fn = "definitions" /\ call.exists /\ call.manim

\* The scenes of a file that rendered.
RenderedScenes(file) ==
    {discover_scenes(file)[k] : k \in {m \in 1..Len(file.outcomes) : file.outcomes[m].ok}}

\* C27: render_definition_animations returns, for each definition source
\* file with a scene that rendered, an animation keyed by the file's stem
\* whose main clip is the file's first scene and whose sections list
\* exposes every scene of the file that rendered; a failed scene sets
\* had_errors and does not stop the remaining scenes or files.
C27_AnimationPerDefinitionFile ==
    DefinitionsRendered =>
        /\ \A i \in 1..Len(call.files) :
              LET file == call.files[i]
                  found == {k \in 1..Len(ret.animations) :
                               ret.animations[k].stem = file.stem}
              IN  /\ RenderedScenes(file) # {} => found # {}
                  /\ \A k \in found :
                        /\ ret.animations[k].url =
                              "/definitions/"
                              \o EntryId(file.stem, discover_scenes(file)[1])
                              \o ".mp4"
                        /\ \A scene \in RenderedScenes(file) :
                              \E s \in 1..Len(ret.animations[k].sections) :
                                  ret.animations[k].sections[s].id
                                      = EntryId(file.stem, scene)
        /\ ret.had_errors <=>
              \E i \in 1..Len(call.files) :
                  \E m \in 1..Len(call.files[i].outcomes) :
                      ~call.files[i].outcomes[m].ok
        /\ Len(ret.calls) = Len(Flatten([i \in 1..Len(call.files) |->
                                            discover_scenes(call.files[i])]))

----------------------------------------------------------------------------
(* attach_claim_animation_links applied to its own output *)

\* C28: attach_claim_animation_links is idempotent: applied to its own
\* output (entries whose proof.claims already carry animationIds) it
\* returns entries equal to that output, for every input list of entries.
C28_AttachIdempotent ==
    (pc = "returned_again" /\ call.fn = "attach") => ret.second = ret.first

\* C28 witness: the first call changed the entries (two entries of one
\* group, claims bound to both), the second call returned them as they
\* were.
C28_Witness ==
    /\ pc = "returned_again"
    /\ call.fn = "attach"
    /\ ret.first # call.items
    /\ Len(ret.first) = 2
    /\ SameTheorem(ret.first[1], ret.first[2])
    /\ \E k, m \in 1..Len(ret.first[1].proof.claims) :
          /\ ret.first[1].proof.claims[k].animationId = ret.first[1].id
          /\ ret.first[1].proof.claims[m].animationId = ret.first[2].id
    /\ ret.second = ret.first

----------------------------------------------------------------------------
(* The proof of one scene built on its own: every description object with   *)
(* or without top-level steps, with or without a "scenes" entry for Part1,   *)
(* and with at most MaxClaims claims that declare steps or not.              *)

StepRawClaims ==
    {RawClaim(None, None, scene, None, None, "law", steps) :
        scene \in {None, "Part2"},
        steps \in {NotAList, ListVal(<< >>), ListVal(<<"claim step">>)}}

\* payload["scenes"]: absent, or an object whose entry for Part1 is a bare
\* array of steps, or a fragment object with steps.
StepScenes ==
    {<< >>,
     <<[name |-> "Part1", value |-> ListPayload(<<"scene step">>)]>>,
     <<[name |-> "Part1",
        value |-> Payload("dict", None, None, "Scene title", None, None,
                          ListVal(<<"scene step">>), << >>, FALSE, << >>)]>>}

StepPayloads ==
    {Payload("dict", None, None, "Title", None, None, steps, claims,
             scenes # << >>, scenes) :
        steps \in {NotAList, ListVal(<<"top step">>)},
        claims \in SeqsUpTo(StepRawClaims, MaxClaims),
        scenes \in StepScenes}

InitProof ==
    /\ RunIdle
    /\ pc = "call"
    /\ call \in [fn : {"proof"}, payload : StepPayloads,
                 scene_name : SceneNames, scene_index : 0..MaxClaims]
    /\ ret = << >>

\* Lines 607-631 of main, 432-457 of refresh_text_only.
ProofCall ==
    /\ pc = "call"
    /\ call.fn = "proof"
    /\ ret' = BuildProof(call.payload, normalize_claims(call.payload),
                         TheoremId(call.payload, Stems[1]),
                         call.scene_name, call.scene_index)
    /\ pc' = "returned"
    /\ UNCHANGED <<run_vars, call>>

NextProof == ProofCall

SpecProof == InitProof /\ [][NextProof]_vars

ProofReturned == pc = "returned" /\ call.fn = "proof"

\* The position in the claims of the description of the claim selected for
\* the scene of the call.
SelectedForCall ==
    pick_claim_for_scene(normalize_claims(call.payload), call.scene_name,
                         call.scene_index)

\* The steps a raw claim declares: its "steps" when that is a list.
DeclaredSteps(entry) ==
    IF entry.steps.is_list THEN entry.steps.items ELSE << >>

\* C29: whenever the description file yields a non-empty claim sequence,
\* the entry's proof.steps is exactly the steps of the claim selected for
\* its scene (the empty list when that claim declares none); the payload's
\* top-level and per-scene steps are used only when the claim sequence is
\* empty.
C29_StepsOfSelectedClaim ==
    (ProofReturned /\ call.payload.claims # << >>) =>
        /\ SelectedForCall # 0
        /\ ret.steps = DeclaredSteps(call.payload.claims[SelectedForCall])

\* C29 witness: the description has top-level steps and steps for the
\* scene, the claim selected declares none, and the proof has no steps.
C29_Witness ==
    /\ ProofReturned
    /\ call.payload.claims # << >>
    /\ call.payload.steps.is_list
    /\ call.payload.has_scenes
    /\ call.scene_name = "Part1"
    /\ ~call.payload.claims[SelectedForCall].steps.is_list
    /\ ret.steps = << >>

----------------------------------------------------------------------------
(* Claims about the tags of a manifest entry *)

\* The entries of the manifest read by the last refresh that have the id
\* of e.
ReadEntries(e) ==
    {j \in 1..Len(read_manifest.items) : read_manifest.items[j].id = e.id}

\* C30: the tags of a manifest entry are computed from the entry's proof
\* object and not from the description file, so no entry produced by a
\* render pass has a tags field, and a text-only refresh never adds or
\* changes an entry's tags, whatever tags the description file declares.
C30_TagsNeverFromDescription ==
    /\ \A i \in 1..Len(manifest_items) : manifest_items[i].tags = EmptyTags
    /\ FullRunDone =>
          \A i \in 1..Len(manifest_file.items) :
              manifest_file.items[i].tags = EmptyTags
    /\ (pc = "done" /\ exit_path = "refreshed") =>
          \A i \in 1..Len(manifest_file.items) :
              /\ ReadEntries(manifest_file.items[i]) # {}
              /\ \A j \in ReadEntries(manifest_file.items[i]) :
                    manifest_file.items[i].tags = read_manifest.items[j].tags

\* C30 witness: a render pass and a refresh have run on a file whose
\* description declares tags.number, and the file's entry has no tags.
C30_Witness ==
    /\ pc = "done"
    /\ exit_path = "refreshed"
    /\ RunHappened
    /\ \E i \in 1..Len(manifest_file.items) :
          LET e == manifest_file.items[i]
          IN  /\ SourceExists(e.source)
              /\ SourceFile(e.source).desc.value.tags_number = "1.2"
              /\ e.theoremId = "1.2"
              /\ e.tags = EmptyTags

====
